---- MODULE Spec2Model ----
(***************************************************************************)
(* A model of the sef interpreter (jb3/sef): the recursive-descent parser  *)
(* of src/sef/parser.py as operators over token sequences, and the         *)
(* tree-walking evaluator of src/sef/logic.py as a state machine whose     *)
(* call stack is explicit.                                                 *)
(***************************************************************************)
EXTENDS Integers, Sequences, FiniteSets, TLC

(***************************************************************************)
(* Bounds of the model.                                                    *)
(***************************************************************************)
\* integer literals of the generated programs range over 0..MaxLit
MaxLit == 2
\* deepest nesting of user-function invocations that is explored
MaxDepth == 3

(***************************************************************************)
(* Runtime values.  Every Python value the programs can produce is a       *)
(* record of one shape: t is the Python type, i the integer (or the        *)
(* numerator of a float), d the denominator of a float, s the text of a    *)
(* string or the name of an Operator member.                               *)
(***************************************************************************)
IntV(n) == [t |-> "int", i |-> n, d |-> 1, s |-> ""]
StrV(x) == [t |-> "str", i |-> 0, d |-> 1, s |-> x]
OpV(o) == [t |-> "Operator", i |-> 0, d |-> 1, s |-> o]
FloatV(n, m) == [t |-> "float", i |-> n, d |-> m, s |-> ""]
NoneV == [t |-> "None", i |-> 0, d |-> 1, s |-> ""]

\* Python truthiness of a value (the test `if value:` of execute_item)
Truthy(v) ==
    CASE v.t = "int" -> v.i # 0
      [] v.t = "float" -> v.i # 0
      [] v.t = "str" -> v.s # ""
      [] v.t = "Operator" -> TRUE
      [] OTHER -> FALSE

(***************************************************************************)
(* AST nodes (src/sef/nodes.py).  All nodes share one record shape; a      *)
(* Python list of nodes is the node of kind "list".                        *)
(***************************************************************************)
IntegerNode(n) ==
    [kind |-> "IntegerNode", name |-> "", value |-> IntV(n), items |-> <<>>]
StringNode(x) ==
    [kind |-> "StringNode", name |-> "", value |-> StrV(x), items |-> <<>>]
VariableReferenceNode(x) ==
    [kind |-> "VariableReferenceNode", name |-> "", value |-> StrV(x),
     items |-> <<>>]
OperatorNode(o) ==
    [kind |-> "OperatorNode", name |-> "", value |-> OpV(o), items |-> <<>>]
CallNode(n, arg_exprs) ==
    [kind |-> "CallNode", name |-> n, value |-> NoneV, items |-> arg_exprs]
VariableDeclarationNode(n, expression) ==
    [kind |-> "VariableDeclarationNode", name |-> n, value |-> NoneV,
     items |-> <<expression>>]
ListNode(xs) ==
    [kind |-> "list", name |-> "", value |-> NoneV, items |-> xs]
DefinitionNode(n, arguments, body) ==
    [name |-> n, arguments |-> arguments, body |-> body]

\* the expression of a VariableDeclarationNode
ExpressionOf(item) == item.items[1]

\* the call an item makes, if any: the item itself or the expression of a
\* declaration
CallOf(node) ==
    IF node.kind = "VariableDeclarationNode" THEN ExpressionOf(node) ELSE node

(***************************************************************************)
(* Tokens (src/sef/token.py).  num is int(value) of an INTEGER token; a    *)
(* STRING token carries the text between its quotes; the token            *)
(* VARIABLE_DECLARATION carries the name left of "=" and, as rhs, the      *)
(* tokens the tokenizer yields for the text right of it.                   *)
(***************************************************************************)
Token(type, value) == [type |-> type, value |-> value, num |-> 0, rhs |-> <<>>]
tDEF == Token("DEF", "def ")
tEND == Token("END", "end")
tID(x) == Token("IDENTIFIER", x)
tINT(n) == [type |-> "INTEGER", value |-> "", num |-> n, rhs |-> <<>>]
tSTR(x) == Token("STRING", x)
tLP == Token("OPEN_PAREN", "(")
tRP == Token("CLOSE_PAREN", ")")
tCOMMA == Token("COMMA", ",")
tADD == Token("ADD", "+")
tSUB == Token("SUBTRACT", "-")
tMUL == Token("MULTIPLY", "*")
tDIV == Token("DIVIDE", "/")
tDECL(x, rhs) ==
    [type |-> "VARIABLE_DECLARATION", value |-> x, num |-> 0, rhs |-> rhs]

(***************************************************************************)
(* The parser (src/sef/parser.py).  Every parse operator maps the          *)
(* outstanding tokens to [ok, node, rest]: ok is FALSE when the code       *)
(* raises, rest is self.tokens after the call.                             *)
(***************************************************************************)
ParseFail == [ok |-> FALSE, node |-> NoneV, rest |-> <<>>]
Parsed(node, rest) == [ok |-> TRUE, node |-> node, rest |-> rest]

peek(tokens, expected_type, offset) ==
    /\ offset + 1 <= Len(tokens)
    /\ tokens[offset + 1].type = expected_type

\* consume succeeds iff the head token exists and has the expected type
CanConsume(tokens, expected_type) == peek(tokens, expected_type, 0)

is_operator_next(tokens) ==
    \E o \in {"ADD", "SUBTRACT", "DIVIDE", "MULTIPLY"} : peek(tokens, o, 0)

parse_operator(tokens) == Parsed(OperatorNode(tokens[1].type), Tail(tokens))

parse_string(tokens) == Parsed(StringNode(tokens[1].value), Tail(tokens))

parse_integer(tokens) == Parsed(IntegerNode(tokens[1].num), Tail(tokens))

parse_variable_reference(tokens) ==
    Parsed(VariableReferenceNode(tokens[1].value), Tail(tokens))

\* the value parse_expr returns for the items it collected
ExprResult(items) == IF Len(items) > 1 THEN ListNode(items) ELSE items[1]

RECURSIVE ParseExprLoop(_, _, _, _, _)
RECURSIVE ParseArgumentLoop(_, _)
RECURSIVE ParseCommaLoop(_, _)

parse_expr(tokens, function_call, n) ==
    ParseExprLoop(tokens, <<>>, function_call, n, Len(tokens))

parse_argument_expressions(tokens) == ParseArgumentLoop(tokens, <<>>)

parse_call(tokens) ==
    IF ~(CanConsume(tokens, "IDENTIFIER") /\ peek(tokens, "OPEN_PAREN", 1))
    THEN ParseFail
    ELSE LET args == parse_argument_expressions(Tail(Tail(tokens)))
         IN  IF ~args.ok \/ ~CanConsume(args.rest, "CLOSE_PAREN")
             THEN ParseFail
             ELSE Parsed(CallNode(tokens[1].value, args.node),
                         Tail(args.rest))

parse_variable_declaration(tokens) ==
    LET var_dec == tokens[1]
        spliced == var_dec.rhs \o Tail(tokens)
        body == parse_expr(spliced, FALSE, Len(var_dec.rhs))
    IN  IF ~body.ok THEN ParseFail
        ELSE Parsed(VariableDeclarationNode(var_dec.value, body.node),
                    body.rest)

\* one iteration of the while loop of parse_expr, then the rest of the loop
ParseExprLoop(tokens, items, function_call, n, start_len) ==
    LET one ==
          IF peek(tokens, "INTEGER", 0) THEN parse_integer(tokens)
          ELSE IF peek(tokens, "STRING", 0) THEN parse_string(tokens)
          ELSE IF is_operator_next(tokens) THEN parse_operator(tokens)
          ELSE IF peek(tokens, "IDENTIFIER", 0)
                  /\ peek(tokens, "OPEN_PAREN", 1) THEN parse_call(tokens)
          ELSE IF peek(tokens, "VARIABLE_DECLARATION", 0)
               THEN parse_variable_declaration(tokens)
          ELSE IF peek(tokens, "IDENTIFIER", 0)
               THEN parse_variable_reference(tokens)
          ELSE ParseFail
    IN  IF ~one.ok THEN ParseFail
        ELSE LET items2 == Append(items, one.node)
                 finished ==
                   \/ start_len - Len(one.rest) = n
                   \/ IF function_call
                      THEN peek(one.rest, "COMMA", 0)
                           \/ peek(one.rest, "CLOSE_PAREN", 0)
                      ELSE peek(one.rest, "END", 0)
             IN  IF finished THEN Parsed(ExprResult(items2), one.rest)
                 ELSE ParseExprLoop(one.rest, items2, function_call, n,
                                    start_len)

\* the inner `while self.peek(COMMA)` loop of parse_argument_expressions
ParseCommaLoop(tokens, expressions) ==
    IF ~peek(tokens, "COMMA", 0) THEN Parsed(expressions, tokens)
    ELSE LET e == parse_expr(Tail(tokens), TRUE, -1)
         IN  IF ~e.ok THEN ParseFail
             ELSE ParseCommaLoop(e.rest, Append(expressions, e.node))

\* the outer `while not self.peek(CLOSE_PAREN)` loop
ParseArgumentLoop(tokens, expressions) ==
    IF peek(tokens, "CLOSE_PAREN", 0) THEN Parsed(expressions, tokens)
    ELSE LET e == parse_expr(tokens, TRUE, -1)
         IN  IF ~e.ok THEN ParseFail
             ELSE LET more == ParseCommaLoop(e.rest,
                                             Append(expressions, e.node))
                  IN  IF ~more.ok THEN ParseFail
                      ELSE ParseArgumentLoop(more.rest, more.node)

RECURSIVE ParseNameLoop(_, _)
\* the `while self.peek(COMMA)` loop of parse_argument_names
ParseNameLoop(tokens, arg_names) ==
    IF ~peek(tokens, "COMMA", 0) THEN Parsed(arg_names, tokens)
    ELSE IF ~peek(tokens, "IDENTIFIER", 1) THEN ParseFail
    ELSE ParseNameLoop(Tail(Tail(tokens)),
                       Append(arg_names, tokens[2].value))

parse_argument_names(tokens) ==
    IF ~CanConsume(tokens, "OPEN_PAREN") THEN ParseFail
    ELSE LET names ==
               IF peek(tokens, "IDENTIFIER", 1)
               THEN ParseNameLoop(Tail(Tail(tokens)), <<tokens[2].value>>)
               ELSE Parsed(<<>>, Tail(tokens))
         IN  IF ~names.ok \/ ~CanConsume(names.rest, "CLOSE_PAREN")
             THEN ParseFail
             ELSE Parsed(names.node, Tail(names.rest))

parse_definition(tokens) ==
    IF ~(CanConsume(tokens, "DEF") /\ peek(tokens, "IDENTIFIER", 1))
    THEN ParseFail
    ELSE LET arguments == parse_argument_names(Tail(Tail(tokens)))
         IN  IF ~arguments.ok THEN ParseFail
             ELSE LET body == parse_expr(arguments.rest, FALSE, -1)
                  IN  IF ~body.ok \/ ~CanConsume(body.rest, "END")
                      THEN ParseFail
                      ELSE Parsed(DefinitionNode(tokens[2].value,
                                                 arguments.node, body.node),
                                  Tail(body.rest))

RECURSIVE ParseLoop(_, _)
\* the `while self.peek(DEF)` loop of parse
ParseLoop(tokens, definitions) ==
    IF ~peek(tokens, "DEF", 0) THEN Parsed(definitions, tokens)
    ELSE LET d == parse_definition(tokens)
         IN  IF ~d.ok THEN ParseFail
             ELSE ParseLoop(d.rest, Append(definitions, d.node))

parse(tokens) == ParseLoop(tokens, <<>>)

(***************************************************************************)
(* The evaluator (src/sef/logic.py).                                       *)
(***************************************************************************)
\* the names __builtins__ maps to a callable, as far as the programs use them
HostNames == {"print", "input"}
\* the lines input() can read
Inputs == {"bob", ""}

\* what function(*arguments) returns; the empty set when the host raises
HostReturns(name, arguments) ==
    CASE name = "print" -> {NoneV}
      [] name = "input" ->
           IF Len(arguments) <= 1 THEN {StrV(x) : x \in Inputs} ELSE {}
      [] OTHER -> {}

NoNode == [kind |-> "None", name |-> "", value |-> NoneV, items |-> <<>>]
EmptyScope == [x \in {} |-> NoneV]
\* variables[name] = value
Bind(variables, name, value) ==
    [x \in (DOMAIN variables) \cup {name} |->
        IF x = name THEN value ELSE variables[x]]

\* Operator members to the functions applied by execute_math, on numbers
\* held as fractions i/d; everything else is left to Python and raises here
operator_node_to_function(op, a, b) ==
    LET num(x) == x.t \in {"int", "float"}
        frac(n, m, isfloat) ==
            IF isfloat THEN [ok |-> TRUE, value |-> FloatV(n, m)]
            ELSE [ok |-> TRUE, value |-> IntV(n)]
        fl == a.t = "float" \/ b.t = "float"
    IN  IF ~(num(a) /\ num(b)) THEN [ok |-> FALSE, value |-> NoneV]
        ELSE CASE op = "ADD" -> frac(a.i * b.d + b.i * a.d, a.d * b.d, fl)
               [] op = "SUBTRACT" ->
                    frac(a.i * b.d - b.i * a.d, a.d * b.d, fl)
               [] op = "MULTIPLY" -> frac(a.i * b.i, a.d * b.d, fl)
               [] op = "DIVIDE" ->
                    IF b.i = 0 THEN [ok |-> FALSE, value |-> NoneV]
                    ELSE frac(a.i * b.d, a.d * b.i, TRUE)
               [] OTHER -> [ok |-> FALSE, value |-> NoneV]

\* an operand of execute_math: a variable is looked up, anything else gives
\* its value attribute
MathOperand(node, variables) ==
    IF node.kind = "VariableReferenceNode"
    THEN IF node.value.s \in DOMAIN variables
         THEN [ok |-> TRUE, value |-> variables[node.value.s]]
         ELSE [ok |-> FALSE, value |-> NoneV]
    ELSE [ok |-> TRUE, value |-> node.value]

\* what execute_math gives: ok is FALSE when the code raises, rest is what
\* its pops have left of the list it was handed
MathResult(ok, value, rest) == [ok |-> ok, value |-> value, rest |-> rest]

RECURSIVE MathLoop(_, _, _)
\* the while loop of execute_math: pop an operator and an operand, apply
MathLoop(accumulator, expression, variables) ==
    IF Len(expression) = 0 THEN MathResult(TRUE, accumulator, <<>>)
    ELSE IF Len(expression) = 1 THEN MathResult(FALSE, NoneV, <<>>)
    ELSE LET operator == expression[1]
             value == MathOperand(expression[2], variables)
             popped == Tail(Tail(expression))
         IN  IF ~value.ok \/ operator.kind # "OperatorNode"
             THEN MathResult(FALSE, NoneV, popped)
             ELSE LET r == operator_node_to_function(operator.value.s,
                                                     accumulator, value.value)
                  IN  IF ~r.ok THEN MathResult(FALSE, NoneV, popped)
                      ELSE MathLoop(r.value, popped, variables)

\* execute_math (lines 59-93): the left-to-right fold of the list, popped
\* off the list it is handed item by item
execute_math(expression, variables) ==
    IF Len(expression) = 0 THEN MathResult(FALSE, NoneV, <<>>)
    ELSE LET first == MathOperand(expression[1], variables)
         IN  IF ~first.ok THEN MathResult(FALSE, NoneV, Tail(expression))
             ELSE MathLoop(first.value, Tail(expression), variables)

\* is_math_expression as its docstring has it: every element is a variable
\* reference, an integer or an operator
is_math_expression_AsDocumented(expression) ==
    [raised |-> FALSE,
     result |-> \A k \in 1..Len(expression) :
                   expression[k].kind \in {"VariableReferenceNode",
                                           "IntegerNode", "OperatorNode"}]

\* is_math_expression: isinstance is handed a list where a type or a tuple
\* of types is required, so it raises TypeError on the first element; only
\* the empty list gets through all() and gives True
is_math_expression(expression) ==
    IF Len(expression) = 0 THEN [raised |-> FALSE, result |-> TRUE]
    ELSE [raised |-> TRUE, result |-> FALSE]

\* handle_definition: self.functions[item.name] = item
handle_definition(fs, item) ==
    [n \in (DOMAIN fs) \cup {item.name} |->
        IF n = item.name THEN item ELSE fs[n]]

RECURSIVE BindArguments(_, _, _)
\* the enumerate loop of call_function filling function_variables
BindArguments(function_variables, parameters, arguments) ==
    IF Len(arguments) = 0 THEN function_variables
    ELSE BindArguments(Bind(function_variables, parameters[1], arguments[1]),
                       Tail(parameters), Tail(arguments))

\* the items call_function runs: the elements of a list body, or the body
BodyItems(body) == IF body.kind = "list" THEN body.items ELSE <<body>>

(***************************************************************************)
(* State of one interpreter run.                                           *)
(***************************************************************************)
VARIABLES
    source,     \* history: the tokens tokenize_code handed to the Parser
    tokens,     \* Parser.tokens: the tokens not yet consumed
    ast,        \* Interpreter.ast: the DefinitionNodes the parser returned
    functions,  \* Interpreter.functions: name -> DefinitionNode
    pc,         \* "begin" (registering), "running", "done" or "failed"
    idx,        \* begin_execution: position of the for loop in self.ast
    stack,      \* the active calls of call_function and argument loops
    error,      \* the exception that ended the run, "" while there is none
    result,     \* what call_function("main", []) returned
    log,        \* history: bodies entered and host functions invoked
    last,       \* history: the execute_item call that finished last
    returned    \* history: the calls of call_function that returned

vars ==
    <<source, tokens, ast, functions, pc, idx, stack, error, result, log,
      last, returned>>

\* a frame of call_function: the body of `name` runs in scope variables,
\* item i is next, ret_val is the value of the item before it; node is the
\* item whose execution made the call, arguments what was passed
CallFrame(name, node, mode, items, arguments, variables, before) ==
    [kind |-> "call", name |-> name, node |-> node, mode |-> mode,
     items |-> items, i |-> 1, arguments |-> arguments,
     variables |-> variables, ret_val |-> NoneV, before |-> before]

\* a frame of one of the three `for expr in arg_exprs` loops of
\* execute_item: mode is "host" (lines 145-149), "user" (lines 165-172) or
\* "assign" (lines 128-136)
ArgsFrame(name, node, mode, items, before) ==
    [kind |-> "args", name |-> name, node |-> node, mode |-> mode,
     items |-> items, i |-> 1, arguments |-> <<>>,
     variables |-> EmptyScope, ret_val |-> NoneV, before |-> before]

\* the number of call_function frames on a stack
RECURSIVE CallDepth(_)
CallDepth(stk) ==
    IF Len(stk) = 0 THEN 0
    ELSE (IF stk[1].kind = "call" THEN 1 ELSE 0) + CallDepth(Tail(stk))

\* the frame whose `variables` dict the running code holds: the innermost
\* call_function frame
ScopeIdx(stk) ==
    CHOOSE k \in 1..Len(stk) :
        /\ stk[k].kind = "call"
        /\ \A j \in (k + 1)..Len(stk) : stk[j].kind # "call"
Scope == stack[ScopeIdx(stack)].variables
SetScope(stk, variables) ==
    [stk EXCEPT ![ScopeIdx(stk)].variables = variables]

Top == stack[Len(stack)]
HasItem == pc = "running" /\ Len(stack) > 0 /\ Top.i <= Len(Top.items)
CurItem == Top.items[Top.i]

\* hand the value execute_item returned to the loop that called it
Deliver(stk, value) ==
    LET n == Len(stk)
    IN  IF stk[n].kind = "call"
        THEN [stk EXCEPT ![n].ret_val = value, ![n].i = @ + 1]
        ELSE [stk EXCEPT ![n].arguments = Append(@, value), ![n].i = @ + 1]

Executed(node, before, after, ok, value, arguments) ==
    [node |-> node, before |-> before, after |-> after, ok |-> ok,
     value |-> value, arguments |-> arguments]

\* execute_item returns value for the current item, leaving scope `after`
Complete(value, after) ==
    /\ stack' = Deliver(SetScope(stack, after), value)
    /\ last' = Executed(CurItem, Scope, after, TRUE, value, <<>>)
    /\ UNCHANGED <<source, tokens, returned, ast, functions, pc, idx, error,
                   result, log>>

\* an exception leaves execute_item for `node` and ends the run
Raise(exception, node, before) ==
    /\ pc' = "failed"
    /\ error' = exception
    /\ last' = Executed(node, before, before, FALSE, NoneV, <<>>)
    /\ UNCHANGED <<source, tokens, returned, ast, functions, idx, stack,
                   result, log>>

(***************************************************************************)
(* The lists execute_math pops are the lists of the AST themselves: the    *)
(* objects self.functions and self.ast hold and the running loops iterate. *)
(* The frames from the innermost call_function up are the way from the     *)
(* body of the running function to the list the top frame executes.        *)
(***************************************************************************)
RECURSIVE Popped(_, _, _)
\* the current item `node` of frame k once the executed list is down to rest
Popped(node, k, rest) ==
    IF k = Len(stack)
    THEN IF node.kind = "VariableDeclarationNode"
         THEN [node EXCEPT
                 !.items = <<[ExpressionOf(node) EXCEPT !.items = rest]>>]
         ELSE [node EXCEPT !.items = rest]
    ELSE LET call == CallOf(node)
             inner == [call EXCEPT
                         !.items[stack[k + 1].i] = Popped(@, k + 1, rest)]
         IN  IF node.kind = "VariableDeclarationNode"
             THEN [node EXCEPT !.items = <<inner>>]
             ELSE inner

\* the body of the running function once the executed list is down to rest
PoppedBody(rest) ==
    LET c == ScopeIdx(stack)
        body == functions[stack[c].name].body
    IN  IF body.kind = "list"
        THEN [body EXCEPT !.items[stack[c].i] = Popped(@, c, rest)]
        ELSE Popped(body, c, rest)

\* self.functions and self.ast hold the same DefinitionNode objects
PoppedFunctions(rest) ==
    [functions EXCEPT ![stack[ScopeIdx(stack)].name].body = PoppedBody(rest)]
PoppedAst(rest) ==
    [k \in 1..Len(ast) |->
        IF /\ ast[k].name = stack[ScopeIdx(stack)].name
           /\ \A j \in (k + 1)..Len(ast) : ast[j].name # ast[k].name
        THEN [ast[k] EXCEPT !.body = PoppedBody(rest)]
        ELSE ast[k]]

RECURSIVE PoppedItem(_, _)
\* the current item of frame k, from the innermost call_function up
PoppedItem(k, rest) ==
    IF k = ScopeIdx(stack)
    THEN BodyItems(PoppedBody(rest))[stack[k].i]
    ELSE CallOf(PoppedItem(k - 1, rest)).items[stack[k].i]

\* the loops of the running function iterate the popped lists
PoppedStack(rest) ==
    [k \in 1..Len(stack) |->
        IF /\ stack[k].kind = "call"
           /\ stack[k].name = stack[ScopeIdx(stack)].name
        THEN [stack[k] EXCEPT !.items = BodyItems(PoppedBody(rest))]
        ELSE IF k > ScopeIdx(stack)
        THEN [stack[k] EXCEPT
                !.items = CallOf(PoppedItem(k - 1, rest)).items]
        ELSE stack[k]]

\* execute_item returns value after execute_math has popped the list of the
\* current item down to rest
CompleteMath(value, after, rest) ==
    /\ stack' = Deliver(SetScope(PoppedStack(rest), after), value)
    /\ functions' = PoppedFunctions(rest)
    /\ ast' = PoppedAst(rest)
    /\ last' = Executed(CurItem, Scope, after, TRUE, value, <<>>)
    /\ UNCHANGED <<source, tokens, returned, pc, idx, error, result, log>>

\* an exception leaves execute_math, which has popped the list down to rest
RaiseMath(exception, rest) ==
    /\ pc' = "failed"
    /\ error' = exception
    /\ stack' = PoppedStack(rest)
    /\ functions' = PoppedFunctions(rest)
    /\ ast' = PoppedAst(rest)
    /\ last' = Executed(CurItem, Scope, Scope, FALSE, NoneV, <<>>)
    /\ UNCHANGED <<source, tokens, returned, idx, result, log>>

CallEvent(name, arguments, variables) ==
    [ev |-> "call", name |-> name, arguments |-> arguments,
     variables |-> variables]
\* call_function(name, arguments) returned value
ReturnEvent(name, arguments, value) ==
    [name |-> name, arguments |-> arguments, value |-> value]
HostEvent(name, arguments) ==
    [ev |-> "host", name |-> name, arguments |-> arguments,
     variables |-> EmptyScope]

(***************************************************************************)
(* call_function (lines 190-222).                                          *)
(***************************************************************************)
\* line 200 with != weakened to >: too few arguments get through
ArityOK_AtMost(function, arguments) ==
    Len(arguments) <= Len(function.arguments)

\* the test of line 200, negated: the call may go on
ArityOK(function, arguments) == Len(arguments) = Len(function.arguments)

\* lines 194-211: look the function up, check the arity, fill a new scope
\* and enter the body; the frame is pushed on stk
call_function(stk, name, arguments, node, mode, before) ==
    IF name \notin DOMAIN functions
    THEN Raise("DoesNotExist", node, before)
    ELSE IF ~ArityOK(functions[name], arguments)
    THEN Raise("Expects", node, before)
    ELSE LET function == functions[name]
             function_variables ==
                 BindArguments(EmptyScope, function.arguments, arguments)
         IN  /\ CallDepth(stk) < MaxDepth
             /\ stack' = Append(stk, CallFrame(name, node, mode,
                                               BodyItems(function.body),
                                               arguments, function_variables,
                                               before))
             /\ log' = Append(log, CallEvent(name, arguments,
                                             function_variables))
             /\ pc' = "running"
             /\ UNCHANGED <<source, tokens, returned, ast, functions, idx,
                            error, result, last>>

(***************************************************************************)
(* begin_execution (lines 20-43).                                          *)
(***************************************************************************)
\* the loop of line 31 left as soon as one definition has been handled
LoopDone_AfterFirst(i, definitions) == i > 1 \/ i > Len(definitions)

\* the for loop of line 31 has been through all of self.ast
LoopDone(i, definitions) == i > Len(definitions)

\* lines 31-32: one iteration of the loop over self.ast; execute_item hands
\* the DefinitionNode to handle_definition (this is the one place where
\* execute_item runs with its default `variables`, which it does not touch)
RegisterDefinition ==
    /\ pc = "begin"
    /\ ~LoopDone(idx, ast)
    /\ functions' = handle_definition(functions, ast[idx])
    /\ idx' = idx + 1
    /\ UNCHANGED <<source, tokens, returned, ast, pc, stack, error, result,
                   log, last>>

\* lines 34-36 without the elif of lines 37-40
EntryPointError_NoArity(fs) ==
    IF "main" \notin DOMAIN fs THEN "MissingMain" ELSE ""

\* lines 34-40: the exception begin_execution raises for this function
\* table, "" when main may be called
EntryPointError(fs) ==
    IF "main" \notin DOMAIN fs THEN "MissingMain"
    ELSE IF Len(fs["main"].arguments) > 0 THEN "MainArguments"
    ELSE ""

\* lines 34-43, after the loop: check for main, then call it
CheckEntryPoint ==
    /\ pc = "begin"
    /\ LoopDone(idx, ast)
    /\ IF EntryPointError(functions) # ""
       THEN Raise(EntryPointError(functions), NoNode, EmptyScope)
       ELSE call_function(<<>>, "main", <<>>, NoNode, "main", EmptyScope)

(***************************************************************************)
(* execute_item (lines 109-188), one action per branch.                    *)
(***************************************************************************)
\* lines 181-188: a node without special behaviour gives its value
\* attribute if that is truthy
ExecValue ==
    /\ HasItem
    /\ CurItem.kind \in {"IntegerNode", "StringNode", "OperatorNode"}
    /\ IF Truthy(CurItem.value)
       THEN Complete(CurItem.value, Scope)
       ELSE Raise("NoWayToExecute", CurItem, Scope)

\* lines 173-175: variables[item.value]
ExecVariableReference ==
    /\ HasItem
    /\ CurItem.kind = "VariableReferenceNode"
    /\ IF CurItem.value.s \in DOMAIN Scope
       THEN Complete(Scope[CurItem.value.s], Scope)
       ELSE Raise("KeyError", CurItem, Scope)

\* lines 176-180: a list is run as maths if is_math_expression says so, and
\* gives None otherwise
ExecList ==
    /\ HasItem
    /\ CurItem.kind = "list"
    /\ LET m == is_math_expression(CurItem.items)
           r == execute_math(CurItem.items, Scope)
       IN  IF m.raised THEN Raise("TypeError", CurItem, Scope)
           ELSE IF ~m.result THEN Complete(NoneV, Scope)
           ELSE IF r.ok THEN CompleteMath(r.value, Scope, r.rest)
           ELSE RaiseMath("MathError", r.rest)

\* lines 117-139: a declaration binds the result of maths (lines 119-124)
\* or the value attribute of its expression (lines 138-139); for a call it
\* starts the argument loop of lines 128-131
ExecVariableDeclaration ==
    /\ HasItem
    /\ CurItem.kind = "VariableDeclarationNode"
    /\ LET expression == ExpressionOf(CurItem)
           m == is_math_expression(expression.items)
           r == execute_math(expression.items, Scope)
       IN  IF expression.kind = "list"
           THEN IF m.raised THEN Raise("TypeError", CurItem, Scope)
                ELSE IF ~m.result THEN Complete(NoneV, Scope)
                ELSE IF r.ok
                THEN CompleteMath(NoneV, Bind(Scope, CurItem.name, r.value),
                                  r.rest)
                ELSE RaiseMath("MathError", r.rest)
           ELSE IF expression.kind = "CallNode"
           THEN /\ stack' = Append(stack,
                                   ArgsFrame(expression.name, CurItem,
                                             "assign", expression.items,
                                             Scope))
                /\ UNCHANGED <<source, tokens, returned, ast, functions, pc,
                               idx, error, result, log, last>>
           ELSE Complete(NoneV, Bind(Scope, CurItem.name, expression.value))

\* lines 140-163: a call of a name that is no user function goes to the
\* callable of that name in __builtins__ or raises; a call of a user
\* function with the wrong number of argument expressions raises; any other
\* call starts the argument loop of lines 165-169 (145-147 for the host)
ExecCall ==
    /\ HasItem
    /\ CurItem.kind = "CallNode"
    /\ IF CurItem.name \notin DOMAIN functions
       THEN IF CurItem.name \in HostNames
            THEN /\ stack' = Append(stack,
                                    ArgsFrame(CurItem.name, CurItem, "host",
                                              CurItem.items, Scope))
                 /\ UNCHANGED <<source, tokens, returned, ast, functions, pc,
                                idx, error, result, log, last>>
            ELSE Raise("CouldNotFind", CurItem, Scope)
       ELSE IF Len(functions[CurItem.name].arguments) # Len(CurItem.items)
       THEN Raise("ThereIsAFunction", CurItem, Scope)
       ELSE /\ stack' = Append(stack,
                               ArgsFrame(CurItem.name, CurItem, "user",
                                         CurItem.items, Scope))
            /\ UNCHANGED <<source, tokens, returned, ast, functions, pc, idx,
                           error, result, log, last>>

\* the argument loop is over: line 149 calls the host function and returns
\* its value; lines 133 and 172 go to call_function
FinishArguments ==
    /\ pc = "running"
    /\ Len(stack) > 0
    /\ Top.kind = "args"
    /\ Top.i > Len(Top.items)
    /\ LET below == SubSeq(stack, 1, Len(stack) - 1)
       IN  IF Top.mode = "host"
           THEN IF HostReturns(Top.name, Top.arguments) = {}
                THEN Raise("HostError", Top.node, Top.before)
                ELSE \E value \in HostReturns(Top.name, Top.arguments) :
                        /\ stack' = Deliver(below, value)
                        /\ log' = Append(log,
                                         HostEvent(Top.name, Top.arguments))
                        /\ last' = Executed(Top.node, Top.before, Scope,
                                            TRUE, value, Top.arguments)
                        /\ UNCHANGED <<source, tokens, returned, ast,
                                       functions, pc, idx, error, result>>
           ELSE call_function(below, Top.name, Top.arguments, Top.node,
                              Top.mode, Top.before)

\* lines 212-222: the body is through, call_function returns the value of
\* its last item; line 133 binds it, line 172 returns it, and
\* begin_execution drops it
Return ==
    /\ pc = "running"
    /\ Len(stack) > 0
    /\ Top.kind = "call"
    /\ Top.i > Len(Top.items)
    /\ LET below == SubSeq(stack, 1, Len(stack) - 1)
           bound == Bind(below[ScopeIdx(below)].variables, Top.node.name,
                         Top.ret_val)
       IN  /\ returned' = Append(returned,
                               ReturnEvent(Top.name, Top.arguments,
                                           Top.ret_val))
           /\ IF Len(below) = 0
              THEN /\ pc' = "done"
                   /\ result' = Top.ret_val
                   /\ stack' = below
                   /\ UNCHANGED <<source, tokens, ast, functions, idx, error,
                                  log, last>>
              ELSE IF Top.mode = "assign"
              THEN /\ stack' = Deliver(SetScope(below, bound), NoneV)
                   /\ last' = Executed(Top.node, Top.before, bound, TRUE, NoneV,
                                       Top.arguments)
                   /\ UNCHANGED <<source, tokens, ast, functions, pc, idx,
                                  error, result, log>>
              ELSE /\ stack' = Deliver(below, Top.ret_val)
                   /\ last' = Executed(Top.node, Top.before,
                                       below[ScopeIdx(below)].variables, TRUE,
                                       Top.ret_val, Top.arguments)
                   /\ UNCHANGED <<source, tokens, ast, functions, pc, idx,
                                  error, result, log>>

(***************************************************************************)
(* The programs that are run, as the token sequences tokenize_code gives   *)
(* for their text.                                                         *)
(***************************************************************************)
RECURSIVE CommaSeparated(_)
\* the tokens of e1, e2, ..., each e a token sequence
CommaSeparated(parts) ==
    IF Len(parts) = 0 THEN <<>>
    ELSE IF Len(parts) = 1 THEN parts[1]
    ELSE parts[1] \o <<tCOMMA>> \o CommaSeparated(Tail(parts))

\* def name(p1, p2, ...) body end
SrcDef(name, parameters, body) ==
    <<tDEF, tID(name), tLP>>
        \o CommaSeparated([k \in 1..Len(parameters) |-> <<tID(parameters[k])>>])
        \o <<tRP>> \o body \o <<tEND>>
\* name(e1, e2, ...)
SrcCall(name, arg_exprs) ==
    <<tID(name), tLP>> \o CommaSeparated(arg_exprs) \o <<tRP>>
\* def main() body end
SrcMain(body) == SrcDef("main", <<>>, body)

Lits == 0..MaxLit
OpTokens == {tADD, tSUB, tMUL, tDIV}
\* the operands of the generated arithmetic runs
Operands == {<<tINT(n)>> : n \in Lits}
\* the arithmetic runs a op b and a op b op c
ShortRuns == {a \o <<o>> \o b : a \in Operands, o \in OpTokens, b \in Operands}
LongRuns == {r \o <<o>> \o <<tINT(MaxLit + 2)>> : r \in ShortRuns, o \in {tMUL, tSUB}}
Runs == ShortRuns \cup LongRuns
     \cup {<<tINT(2), tADD, tINT(3), tMUL, tINT(4)>>,
           <<tINT(10), tSUB, tINT(4), tSUB, tINT(1)>>}

\* def add(a, b) a + b end
SrcAdd == SrcDef("add", <<"a", "b">>, <<tID("a"), tADD, tID("b")>>)
\* def f(a, b) a end
SrcTwo == SrcDef("f", <<"a", "b">>, <<tID("a")>>)
\* argument lists of 0..3 expressions for the calls of f
ArgLists ==
    {<<>>, <<<<tINT(1)>>>>, <<<<tID("z")>>>>, <<<<tINT(1)>>, <<tINT(2)>>>>,
     <<<<tINT(1)>>, <<tSTR("s")>>>>, <<<<tINT(1)>>, <<tID("z")>>>>,
     <<<<tINT(1)>>, <<tINT(2)>>, <<tINT(1)>>>>,
     <<<<tINT(1)>>, SrcCall("print", <<<<tSTR("s")>>>>)>>,
     <<<<tINT(1)>>, <<tINT(2)>>, SrcCall("print", <<<<tSTR("s")>>>>)>>,
     <<SrcCall("f", <<<<tINT(1)>>, <<tINT(2)>>>>)>>}

\* the script of src/test.py
SrcTest ==
    SrcMain(<<tDECL("username",
                    SrcCall("get_input", <<<<tSTR("Enter your username: ")>>>>))>>
            \o SrcCall("print", <<<<tSTR("Welcome back")>>,
                                  <<tID("username")>>>>))
    \o SrcDef("get_input", <<"prompt">>,
              SrcCall("input", <<<<tID("prompt")>>>>))

Sources ==
    \* arithmetic: as the body of add, of main, as an argument, in a
    \* declaration
    {SrcAdd \o SrcMain(SrcCall("add", <<x, y>>)) : x \in Operands, y \in Operands}
    \cup {SrcAdd \o SrcMain(SrcCall("add", <<<<tINT(2)>>, <<tINT(3)>>>>))}
    \cup {SrcMain(r) : r \in Runs}
    \cup {SrcMain(SrcCall("print", <<r>>)) : r \in Runs}
    \cup {SrcMain(<<tDECL("x", r), tID("x")>>) : r \in ShortRuns}
    \cup {SrcMain(<<tDECL("x", <<tINT(2), tADD, tINT(3)>>), tID("x")>>)}
    \cup {SrcMain(<<tDECL("y", <<tINT(1)>>), tDECL("x", <<tID("y"), tADD, tINT(1)>>),
                    tID("x")>>)}
    \cup {SrcMain(<<tID("z"), tADD, tINT(1)>>),
          SrcMain(SrcCall("print", <<<<tID("z"), tADD, tINT(1)>>>>)),
          SrcMain(<<tDECL("x", <<tINT(1), tADD, tID("z")>>), tID("x")>>)}
    \* literals and references: as a body item, an argument, in a declaration
    \cup {SrcMain(e) : e \in Operands \cup {<<tSTR("hi")>>, <<tID("z")>>, <<tADD>>}}
    \cup {SrcMain(SrcCall("print", <<e>>)) :
            e \in Operands \cup {<<tSTR("hi")>>, <<tID("z")>>}}
    \cup {SrcMain(<<tDECL("x", e), tID("x")>>) :
            e \in Operands \cup {<<tSTR("hi")>>, <<tID("z")>>}}
    \cup {SrcMain(<<tDECL("y", e), tDECL("x", <<tID("y")>>), tID("x")>>) :
            e \in Operands \cup {<<tSTR("hi")>>}}
    \cup {SrcMain(SrcCall("print", <<<<tDECL("x", <<tINT(1)>>)>>>>) \o <<tID("x")>>)}
    \* calls: host functions, unknown names, arities
    \cup {SrcTest}
    \cup {SrcMain(SrcCall(f, <<<<tSTR("p")>>>>)) : f \in {"print", "input", "foo"}}
    \cup {SrcMain(<<tDECL("x", SrcCall(f, <<<<tSTR("p")>>>>)), tID("x")>>) :
            f \in {"print", "input", "foo"}}
    \cup {SrcMain(SrcCall("print", <<SrcCall(f, <<>>)>>)) : f \in {"input", "foo"}}
    \cup {SrcMain(SrcCall("input", <<<<tSTR("p")>>, <<tSTR("q")>>>>))}
    \cup {SrcMain(SrcCall("foo", <<e>>)) :
            e \in {SrcCall("print", <<<<tSTR("s")>>>>), <<tID("z")>>}}
    \cup {SrcTwo \o SrcMain(SrcCall("f", a)) : a \in ArgLists}
    \cup {SrcMain(SrcCall("f", a)) \o SrcTwo : a \in ArgLists}
    \cup {SrcTwo \o SrcMain(<<tDECL("x", SrcCall("f", a)), tID("x")>>) :
            a \in ArgLists}
    \cup {SrcDef("f", <<>>, <<tINT(1)>>)
            \o SrcMain(<<tDECL("x", SrcCall("f", <<>>) \o <<tADD, tINT(1)>>),
                         tID("x")>>)}
    \* scopes
    \cup {SrcMain(<<tDECL("x", <<tINT(1)>>)>> \o SrcCall("g", <<>>) \o <<tID("x")>>)
            \o SrcDef("g", <<>>, b) :
            b \in {<<tID("x")>>, <<tDECL("x", <<tINT(2)>>), tID("x")>>,
                   <<tDECL("y", <<tID("x")>>), tID("y")>>,
                   SrcCall("print", <<<<tID("x")>>>>)}}
    \cup {SrcMain(<<tDECL("q", <<tINT(1)>>)>> \o SrcCall("r", <<<<tID("q")>>>>))
            \o SrcDef("r", <<"p">>, b) :
            b \in {<<tDECL("q", <<tINT(2)>>)>> \o SrcCall("r", <<<<tID("q")>>>>),
                   <<tDECL("q", SrcCall("r", <<<<tID("p")>>>>)), tID("q")>>,
                   <<tDECL("p", <<tSTR("s")>>)>> \o SrcCall("r", <<<<tID("q")>>>>)}}
    \* one function called twice with the same arguments
    \cup {d \o SrcMain(c \o c) : d \in {SrcAdd}, c \in {SrcCall("add", <<x, y>>) :
            x \in Operands, y \in {<<tINT(2)>>}}}
    \cup {SrcDef("f", <<>>, b) \o SrcMain(SrcCall("f", <<>>) \o SrcCall("f", <<>>)) :
            b \in {SrcCall("print", <<<<tINT(1), tADD, tINT(2)>>>>),
                   <<tDECL("x", <<tINT(1), tADD, tINT(2)>>), tID("x")>>,
                   <<tDECL("x", <<tINT(1)>>), tID("x")>>,
                   SrcCall("print", <<<<tINT(1)>>>>),
                   SrcCall("input", <<>>)}}
    \cup {SrcDef("get_input", <<"prompt">>, SrcCall("input", <<<<tID("prompt")>>>>))
            \o SrcMain(SrcCall("get_input", <<<<tSTR("p")>>>>)
                       \o SrcCall("get_input", <<<<tSTR("p")>>>>))}
    \* the entry point, and definitions of one name
    \cup {<<>>, SrcDef("f", <<>>, <<tINT(1)>>),
          SrcDef("f", <<>>, SrcCall("print", <<<<tINT(1)>>>>)),
          SrcDef("main", <<"a">>, <<tINT(1)>>),
          SrcDef("main", <<"a">>, SrcCall("print", <<<<tID("a")>>>>)),
          SrcDef("main", <<"a", "b">>, <<tID("a")>>) \o SrcDef("f", <<>>, <<tINT(1)>>),
          SrcDef("main", <<"a">>, <<tINT(1)>>) \o SrcMain(<<tINT(2)>>),
          SrcMain(<<tINT(2)>>) \o SrcDef("main", <<"a">>, <<tINT(1)>>),
          SrcDef("f", <<>>, <<tINT(1)>>) \o SrcMain(SrcCall("f", <<>>))
              \o SrcDef("f", <<>>, <<tINT(2)>>),
          SrcDef("f", <<>>, <<tINT(1)>>) \o SrcMain(SrcCall("f", <<>>))
              \o SrcDef("f", <<"a">>, <<tID("a")>>)}

(***************************************************************************)
(* The run: Interpreter(parser.parse()) and begin_execution.               *)
(***************************************************************************)
Init ==
    /\ source \in Sources
    /\ parse(source).ok
    /\ tokens = parse(source).rest
    /\ ast = parse(source).node
    /\ functions = [n \in {} |-> NoNode]
    /\ pc = "begin"
    /\ idx = 1
    /\ stack = <<>>
    /\ error = ""
    /\ result = NoneV
    /\ log = <<>>
    /\ last = Executed(NoNode, EmptyScope, EmptyScope, TRUE, NoneV, <<>>)
    /\ returned = <<>>

Next ==
    \/ RegisterDefinition
    \/ CheckEntryPoint
    \/ ExecValue
    \/ ExecVariableReference
    \/ ExecList
    \/ ExecVariableDeclaration
    \/ ExecCall
    \/ FinishArguments
    \/ Return

Spec == Init /\ [][Next]_vars

(***************************************************************************)
(* The parser run by itself: Parser(tokens).parse() of src/sef/__main__.py,*)
(* one definition a step.                                                  *)
(***************************************************************************)
\* programs with an assignment line whose right-hand side text is not one
\* complete expression sequence: a call closed on the next line
\* (`x = f(1` / `)`, `x = f(` / `1, 2)`), an `end` on the line itself
\* (`x = 1 end`), only blanks (`x = ` and a tab), each followed by a body
\* line; and with one whose right-hand side is complete
Assignments ==
    {SrcMain(<<tDECL("x", <<tID("f"), tLP, tINT(1)>>), tRP, tID("y")>>),
     SrcMain(<<tDECL("x", <<tID("f"), tLP>>), tINT(1), tCOMMA, tINT(2), tRP,
               tID("y")>>),
     SrcMain(<<tDECL("x", <<tINT(1), tEND>>), tID("y")>>),
     SrcMain(<<tDECL("x", <<>>), tID("y")>>),
     SrcMain(<<tDECL("x", <<>>), tID("y"), tINT(2)>>),
     SrcMain(<<tDECL("x", <<tEND>>), tID("y")>>),
     SrcMain(<<tDECL("x", <<tID("f"), tLP, tINT(1), tRP>>), tID("y")>>),
     SrcMain(<<tDECL("x", <<tINT(1), tADD, tINT(2)>>), tID("y")>>)}

\* token sequences parse raises on
Unparsable ==
    {<<tDEF, tID("main"), tLP, tRP, tEND>>,
     <<tDEF, tID("main"), tLP, tRP, tINT(1)>>,
     <<tDEF, tID("main"), tLP, tID("a"), tCOMMA, tRP, tINT(1), tEND>>,
     <<tDEF, tID("main"), tINT(1), tEND>>,
     <<tDEF, tINT(1), tLP, tRP, tINT(1), tEND>>,
     SrcMain(<<tID("f"), tLP, tINT(1)>>),
     SrcMain(<<tINT(1)>>) \o <<tDEF, tID("f"), tLP, tRP, tRP, tEND>>}

ParserSources == Sources \cup Assignments \cup Unparsable

ParserInit ==
    /\ source \in ParserSources
    /\ tokens = source
    /\ ast = <<>>
    /\ functions = [n \in {} |-> NoNode]
    /\ pc = "parse"
    /\ idx = 1
    /\ stack = <<>>
    /\ error = ""
    /\ result = NoneV
    /\ log = <<>>
    /\ last = Executed(NoNode, EmptyScope, EmptyScope, TRUE, NoneV, <<>>)
    /\ returned = <<>>

\* lines 58-60 of parse: one iteration of the `while self.peek(DEF)` loop;
\* an exception of parse_definition ends the parse
ParseDefinition ==
    /\ pc = "parse"
    /\ peek(tokens, "DEF", 0)
    /\ LET d == parse_definition(tokens)
       IN  IF d.ok
           THEN /\ ast' = Append(ast, d.node)
                /\ tokens' = d.rest
                /\ UNCHANGED <<pc, error>>
           ELSE /\ pc' = "failed"
                /\ error' = "ParseError"
                /\ UNCHANGED <<tokens, ast>>
    /\ UNCHANGED <<source, functions, idx, stack, result, log, last, returned>>

\* line 62 of parse: no DEF is next, the definitions are returned
ParseReturn ==
    /\ pc = "parse"
    /\ ~peek(tokens, "DEF", 0)
    /\ pc' = "parsed"
    /\ UNCHANGED <<source, tokens, ast, functions, idx, stack, error, result,
                   log, last, returned>>

ParserNext == ParseDefinition \/ ParseReturn

ParserSpec == ParserInit /\ [][ParserNext]_vars

(***************************************************************************)
(* Vocabulary of the properties.                                           *)
(***************************************************************************)
\* the two arity exceptions (lines 159 and 202)
ArityErrors == {"ThereIsAFunction", "Expects"}
\* the two unknown-function exceptions (lines 152 and 198)
UnknownFunctionErrors == {"CouldNotFind", "DoesNotExist"}

\* a1 op1 a2 op2 a3 ... with every variable among its operands bound
IsArithmeticRun(items, variables) ==
    /\ Len(items) >= 3
    /\ Len(items) % 2 = 1
    /\ \A k \in 1..Len(items) :
          IF k % 2 = 1
          THEN \/ items[k].kind = "IntegerNode"
               \/ /\ items[k].kind = "VariableReferenceNode"
                  /\ items[k].value.s \in DOMAIN variables
                  /\ variables[items[k].value.s].t = "int"
          ELSE items[k].kind = "OperatorNode"
    /\ execute_math(items, variables).ok

\* the left-to-right fold of an arithmetic run
Fold(items, variables) == execute_math(items, variables).value

MakesCall(node) == CallOf(node).kind = "CallNode"
\* the item calls a user function with a number of argument expressions
\* that differs from the number of its parameters
Mismatched(node) ==
    /\ MakesCall(node)
    /\ CallOf(node).name \in DOMAIN functions
    /\ Len(functions[CallOf(node).name].arguments) # Len(CallOf(node).items)

\* the definition of name that comes last in the source
LastDefinition(name) ==
    ast[CHOOSE i \in 1..Len(ast) :
            /\ ast[i].name = name
            /\ \A j \in (i + 1)..Len(ast) : ast[j].name # name]
DefinedNames == {ast[i].name : i \in 1..Len(ast)}

(***************************************************************************)
(* The claims.                                                             *)
(***************************************************************************)
\* C1: evaluating an arithmetic run a1 op1 a2 op2 a3 ... yields the strict
\* left-to-right fold without precedence (2 + 3 * 4 gives 20), where the run
\* is an expression of its own (a call argument) and where it is the body of
\* main.
C1_ArithmeticRunFolds ==
    /\ (last.node.kind = "list"
        /\ IsArithmeticRun(last.node.items, last.before))
       => (last.ok /\ last.value = Fold(last.node.items, last.before))
    /\ (pc = "done"
        /\ functions["main"].body.kind = "list"
        /\ IsArithmeticRun(functions["main"].body.items, EmptyScope))
       => result = Fold(functions["main"].body.items, EmptyScope)

\* C2: a call of a user function whose body is one arithmetic run over its
\* parameters returns the value of that run: add(x, y) returns x + y.
C2_CallReturnsRun ==
    (/\ last.ok
     /\ last.node.kind = "CallNode"
     /\ last.node.name \in DOMAIN functions
     /\ functions[last.node.name].body.kind = "list"
     /\ IsArithmeticRun(functions[last.node.name].body.items,
                        BindArguments(EmptyScope,
                                      functions[last.node.name].arguments,
                                      last.arguments)))
    => last.value = Fold(functions[last.node.name].body.items,
                         BindArguments(EmptyScope,
                                       functions[last.node.name].arguments,
                                       last.arguments))

\* C3: executing `name = rhs` binds name, in the scope it ran in, to the
\* value of rhs in that scope: the literal's value, the value of the
\* referenced variable, the fold of the arithmetic run.
C3_AssignmentBinds ==
    LET rhs == ExpressionOf(last.node)
        name == last.node.name
    IN  last.node.kind = "VariableDeclarationNode" =>
          /\ rhs.kind \in {"IntegerNode", "StringNode"} =>
                /\ last.ok
                /\ name \in DOMAIN last.after
                /\ last.after[name] = rhs.value
          /\ (rhs.kind = "VariableReferenceNode"
              /\ rhs.value.s \in DOMAIN last.before) =>
                /\ last.ok
                /\ name \in DOMAIN last.after
                /\ last.after[name] = last.before[rhs.value.s]
          /\ (rhs.kind = "list" /\ IsArithmeticRun(rhs.items, last.before)) =>
                /\ last.ok
                /\ name \in DOMAIN last.after
                /\ last.after[name] = Fold(rhs.items, last.before)

\* the scope parts of C4 that are about one state: an invocation starts with
\* exactly its parameters bound to the arguments, and a reference to a name
\* its own scope does not bind fails, as an item of its own and as the
\* right-hand side of a declaration
C4_State ==
    /\ \A k \in 1..Len(stack) :
          (stack[k].kind = "call" /\ k = Len(stack) /\ stack[k].i = 1) =>
             LET function == functions[stack[k].name]
             IN  /\ DOMAIN stack[k].variables =
                      {function.arguments[j] : j \in 1..Len(function.arguments)}
                 /\ \A j \in 1..Len(function.arguments) :
                       stack[k].variables[function.arguments[j]] =
                           stack[k].arguments[j]
    /\ (last.node.kind = "VariableReferenceNode"
        /\ last.node.value.s \notin DOMAIN last.before)
       => (~last.ok /\ error = "KeyError")
    /\ (last.node.kind = "VariableDeclarationNode"
        /\ ExpressionOf(last.node).kind = "VariableReferenceNode"
        /\ ExpressionOf(last.node).value.s \notin DOMAIN last.before)
       => (~last.ok /\ error = "KeyError")

\* the scope part of C4 that is about one step: the scope of an invocation
\* that is not the running one does not change, except that the return to
\* it may bind the name of its own pending declaration
C4_Step ==
    \A k \in 1..Len(stack) :
       (/\ stack[k].kind = "call"
        /\ k # ScopeIdx(stack)
        /\ k <= Len(stack')) =>
          \/ stack'[k].variables = stack[k].variables
          \/ /\ Len(stack') = Len(stack) - 1
             /\ Top.kind = "call"
             /\ Top.mode = "assign"
             /\ k = ScopeIdx(stack')
             /\ \A x \in DOMAIN stack[k].variables :
                   x # Top.node.name =>
                      /\ x \in DOMAIN stack'[k].variables
                      /\ stack'[k].variables[x] = stack[k].variables[x]

\* C4: scope isolation: every invocation of a user function starts with a
\* scope of exactly its parameters bound to the arguments, a variable of
\* the caller cannot be read in the callee (a reference to it fails), an
\* assignment in the callee never changes the caller's scope, recursion
\* included.
C4_ScopeIsolation == []C4_State /\ [][C4_Step]_vars

\* C5 as stated: a call of a user function with n parameters and another
\* number of argument expressions fails with an arity error: once such a
\* call has begun, the run can only end in an arity error.
C5_AlwaysArityError ==
    (/\ pc = "failed"
     /\ \/ Mismatched(last.node)
        \/ \E k \in 1..Len(stack) :
              stack[k].kind = "args" /\ Mismatched(stack[k].node))
    => error \in ArityErrors

\* the parts of C5 that are about one state: a body runs only for a call
\* with as many arguments as parameters, a call with another number never
\* completes, and when it is the call itself that raises, it raises an
\* arity error
C5_State ==
    /\ \A k \in 1..Len(stack) :
          (stack[k].kind = "call" /\ stack[k].mode # "main") =>
             /\ ~Mismatched(stack[k].node)
             /\ Len(stack[k].arguments) =
                   Len(functions[stack[k].name].arguments)
    /\ \A k \in 1..Len(log) :
          log[k].ev = "call" =>
             Len(log[k].arguments) = Len(functions[log[k].name].arguments)
    /\ last.ok => ~Mismatched(last.node)
    /\ (pc = "failed" /\ Mismatched(last.node)) => error \in ArityErrors

\* the part of C5 that is about one step: a call of a user function with
\* exactly n evaluated arguments goes on to the first item of the body
C5_Step ==
    (/\ pc = "running"
     /\ Len(stack) > 0
     /\ Top.kind = "args"
     /\ Top.i > Len(Top.items)
     /\ Top.mode # "host"
     /\ Top.name \in DOMAIN functions
     /\ ~Mismatched(Top.node))
    => /\ pc' = "running"
       /\ Len(stack') = Len(stack)
       /\ stack'[Len(stack')].kind = "call"
       /\ stack'[Len(stack')].name = Top.name
       /\ stack'[Len(stack')].i = 1

\* C5, amended: the body of a user function with n parameters never runs
\* for a call with another number of argument expressions; such a call
\* fails with an arity error, at once as a body item or call argument and
\* after the evaluation of its arguments as the right-hand side of a
\* declaration, where a failure of that evaluation is raised instead; a
\* call with exactly n arguments goes on to execute the body.
C5_ArityEnforced == []C5_State /\ [][C5_Step]_vars

\* a declaration's call with the wrong number of arguments was refused by
\* call_function after its arguments had been evaluated
C5_Witness ==
    /\ pc = "failed"
    /\ error = "Expects"
    /\ Mismatched(last.node)
    /\ Top.kind = "args"
    /\ Len(Top.arguments) > 0

\* C6: begin_execution fails, before any function body or host function
\* has run, when no definition is named main and when main has parameters;
\* otherwise main is the first function invoked, without arguments and
\* with an empty scope.
C6_EntryPointContract ==
    /\ pc = "begin" => (log = <<>> /\ stack = <<>>)
    /\ pc # "begin" =>
          IF "main" \notin DOMAIN functions
          THEN pc = "failed" /\ error = "MissingMain" /\ log = <<>>
          ELSE IF Len(functions["main"].arguments) > 0
          THEN pc = "failed" /\ error = "MainArguments" /\ log = <<>>
          ELSE /\ Len(log) >= 1
               /\ log[1] = CallEvent("main", <<>>, EmptyScope)

\* a main with parameters and a host call in its body was refused before
\* anything ran
C6_Witness ==
    /\ pc = "failed"
    /\ error = "MainArguments"
    /\ log = <<>>
    /\ functions["main"].body.kind = "CallNode"

\* C7: a call of a name that is not in the function table goes to the host
\* function of that name with the evaluated arguments and gives what the
\* host returns, as a body item, a call argument and the right-hand side
\* of a declaration; it fails as an unknown function only when the host
\* has no callable of that name.
C7_HostFallback ==
    /\ (pc = "failed" /\ error \in UnknownFunctionErrors)
       => CallOf(last.node).name \notin HostNames
    /\ (last.ok /\ MakesCall(last.node)
        /\ last.node.kind = "CallNode"
        /\ last.node.name \notin DOMAIN functions)
       => /\ last.node.name \in HostNames
          /\ last.value \in HostReturns(last.node.name, last.arguments)

\* an operand of the list is a reference to a name that is not bound
HasUnboundOperand(items, variables) ==
    \E k \in 1..Len(items) :
       /\ items[k].kind = "VariableReferenceNode"
       /\ items[k].value.s \notin DOMAIN variables

\* C8: a variable reference executed while the scope does not bind its
\* name ends the run with a lookup failure, as an item of its own (body
\* item, call argument), as the right-hand side of a declaration, where
\* nothing is bound in its place, and as an operand of an arithmetic run.
C8_UnboundReferenceFails ==
    /\ (CallOf(last.node).kind = "list"
        /\ HasUnboundOperand(CallOf(last.node).items, last.before))
       => (pc = "failed" /\ error = "KeyError")
    /\ (last.node.kind = "VariableReferenceNode"
        /\ last.node.value.s \notin DOMAIN last.before)
       => (pc = "failed" /\ error = "KeyError")
    /\ (last.node.kind = "VariableDeclarationNode"
        /\ ExpressionOf(last.node).kind = "VariableReferenceNode"
        /\ ExpressionOf(last.node).value.s \notin DOMAIN last.before)
       => (pc = "failed" /\ error = "KeyError"
           /\ last.node.name \notin DOMAIN last.after)

\* C9: executing a literal gives its value, for the integer literals n >= 0
\* and the string literals, as a body item and as a call argument, and
\* never fails.
C9_LiteralEvaluates ==
    last.node.kind \in {"IntegerNode", "StringNode"}
    => (last.ok /\ last.value = last.node.value)

\* C10: once main's body runs, every top-level definition is in the
\* function table (the last one of each name), so no call of a defined
\* name fails as a call of an unknown function, wherever the definition
\* stands in the source.
C10_RegisteredBeforeMain ==
    /\ pc # "begin" =>
          /\ DOMAIN functions = DefinedNames
          /\ \A n \in DefinedNames : functions[n] = LastDefinition(n)
    /\ (log # <<>> \/ stack # <<>>) => DefinedNames \subseteq DOMAIN functions
    /\ (pc = "failed" /\ error \in UnknownFunctionErrors)
       => CallOf(last.node).name \notin DefinedNames

\* the body of a function defined after main, its caller, is running
C10_Witness ==
    \E k \in 1..Len(stack) :
       /\ stack[k].kind = "call"
       /\ stack[k].name # "main"
       /\ stack[k].i = 1
       /\ \E i, j \in 1..Len(ast) :
             i < j /\ ast[i].name = "main" /\ ast[j].name = stack[k].name

\* the outstanding tokens from position p on
Suffix(p) == SubSeq(tokens, p, Len(tokens))

\* what parse returns is what the loop of ParseDefinition steps builds
ParseAgrees ==
    pc = "parsed" => (ast = parse(source).node /\ tokens = parse(source).rest)

\* C11: when parse_variable_declaration has spliced the k re-lexed tokens of
\* the right-hand side onto the outstanding tokens and parse_expr bounded to
\* k returns, exactly those k tokens are consumed: what is outstanding
\* afterwards is what followed the assignment line's token.
C11_ConsumesExactlyK ==
    \A p \in 1..Len(tokens) :
       (/\ tokens[p].type = "VARIABLE_DECLARATION"
        /\ parse_variable_declaration(Suffix(p)).ok)
       => parse_variable_declaration(Suffix(p)).rest = Tail(Suffix(p))

\* C12: the argument expressions of a call are all evaluated, left to right
\* in the scope of the call, before the function is looked up, its arity
\* checked or the host asked: a call with arguments that fails with an
\* arity error or as unknown has had every argument evaluated, so a failure
\* or a host call of an argument comes first.
C12_ArgumentsBeforeProtocol ==
    /\ \A k \in 1..Len(stack) :
          stack[k].kind = "args" =>
             Len(stack[k].arguments) = stack[k].i - 1
    /\ (/\ pc = "failed"
        /\ error \in ArityErrors \cup UnknownFunctionErrors
        /\ MakesCall(last.node)
        /\ Len(CallOf(last.node).items) > 0)
       => /\ Top.kind = "args"
          /\ Top.node = last.node
          /\ Len(Top.arguments) = Len(CallOf(last.node).items)

\* the definitions of name, as the parser produced them
ParsedDefinitions(name) ==
    LET definitions == parse(source).node
    IN  {definitions[i] : i \in {j \in 1..Len(definitions) :
                                   definitions[j].name = name}}

\* the AST and every definition of the function table equal what the
\* parser produced
AstAsParsed ==
    /\ ast = parse(source).node
    /\ \A n \in DOMAIN functions : functions[n] \in ParsedDefinitions(n)

RECURSIVE CalledNames(_)
\* the names the calls in a node call
CalledNames(node) ==
    (IF node.kind = "CallNode" THEN {node.name} ELSE {})
        \cup UNION {CalledNames(node.items[k]) : k \in 1..Len(node.items)}

RECURSIVE CallGraph(_, _)
\* the names called from the bodies of names, in up to n calls
CallGraph(names, n) ==
    IF n = 0 THEN names
    ELSE CallGraph(names \cup UNION {CalledNames(functions[f].body) :
                                       f \in names \cap DOMAIN functions},
                   n - 1)

\* no call that can be made from the body of name goes to the host
HostFree(name) == CallGraph({name}, Len(ast)) \subseteq DOMAIN functions

====
